---- MODULE Spec2Model ----
(***************************************************************************)
(* Model of the request helper sendRequest (src/unnamed/part_000): the     *)
(* module-level resolution of the base URL, the synchronous part of a call *)
(* up to the fetch invocation, and the continuations after each await.     *)
(* JavaScript values are tagged records; objects the caller owns live in   *)
(* heaps so that aliasing between calls is visible.                        *)
(***************************************************************************)
EXTENDS Integers, Sequences, FiniteSets, TLC

\* ------------------------------------------------------------------ bounds
\* Number of sendRequest invocations in one run.
MaxCalls == 2

\* ------------------------------------------------------- JavaScript values
Undefined == [t |-> "undefined"]
Null == [t |-> "null"]
Str(s) == [t |-> "string", s |-> s]
Num(n) == [t |-> "number", n |-> n]
Bool(b) == [t |-> "boolean", b |-> b]
Obj(f) == [t |-> "object", f |-> f]
Ref(i) == [t |-> "ref", id |-> i]
\* An identifier with no binding: reading it throws ReferenceError.
Undeclared == [t |-> "undeclared"]
EmptyObj == [k \in {} |-> Undefined]

\* ToBoolean
Truthy(v) ==
  CASE v.t = "undefined" -> FALSE
    [] v.t = "null" -> FALSE
    [] v.t = "boolean" -> v.b
    [] v.t = "number" -> v.n # 0
    [] v.t = "string" -> v.s # ""
    [] OTHER -> TRUE

\* a || b
Or(a, b) == IF Truthy(a) THEN a ELSE b

\* ToString, as a template literal or the Error constructor applies it
ToStr(v) ==
  CASE v.t = "string" -> v.s
    [] v.t = "number" -> ToString(v.n)
    [] v.t = "boolean" -> IF v.b THEN "true" ELSE "false"
    [] v.t = "undefined" -> "undefined"
    [] v.t = "null" -> "null"
    [] OTHER -> "[object Object]"

\* o[k] on a property map
Get(o, k) == IF k \in DOMAIN o THEN o[k] ELSE Undefined

\* { ...a, ...b }: later properties win
Merge(a, b) == [k \in DOMAIN a \cup DOMAIN b |-> IF k \in DOMAIN b THEN b[k] ELSE a[k]]

\* delete o[k]
Delete(o, k) == [j \in DOMAIN o \ {k} |-> o[j]]

\* new Error(message)
NewError(message) ==
  [name |-> "Error", message |-> IF message = Undefined THEN "" ELSE ToStr(message)]

\* ------------------------------------------------------------ module load
DefaultPort == 9001
FallbackHost == "http://0.0.0.0:"

\* process.env as the host may provide it
ProcessEnvs == { EmptyObj, "BACKEND_URL" :> Str("https://api.example.com") }

\* bindings the host may provide for the free identifiers PORT and ROOT_URL
HostGlobals ==
  { [PORT |-> Undeclared, ROOT_URL |-> Undeclared],
    [PORT |-> Undefined, ROOT_URL |-> Undefined] }

\* ------------------------------------------------------------ sendRequest
Sentinel == "Remove-Content-Type"
ContentType == "Content-Type"
DefaultContentType == "application/json; charset=UTF-8"

Paths == { "/x" }

\* headers object literals a caller may write
HeaderLiterals ==
  { "X-Token" :> Str("t"),
    ContentType :> Str("text/plain"),
    (Sentinel :> Bool(TRUE)) @@ ("X-Token" :> Str("t")),
    Sentinel :> Bool(FALSE) }

\* options object literals without headers a caller may write
OptionLiterals ==
  { ("credentials" :> Str("omit")) @@ ("method" :> Str("GET")) }

\* options.headers && options.headers["Remove-Content-Type"]
RemoveContentType(options, heap) ==
  IF Truthy(Get(options, "headers"))
    THEN Get(heap[Get(options, "headers").id], Sentinel)
    ELSE Get(options, "headers")

\* ...(options.headers || {})
SpreadHeaders(options, heap) ==
  IF Truthy(Get(options, "headers")) THEN heap[Get(options, "headers").id] ELSE EmptyObj

\* BuildHeaders with the spread and the default swapped: the default wins
BuildHeaders_DefaultWins(options, heap) ==
  IF Truthy(RemoveContentType(options, heap))
    THEN SpreadHeaders(options, heap)
    ELSE Merge(SpreadHeaders(options, heap), ContentType :> Str(DefaultContentType))

\* the local variable headers after the if/else
BuildHeaders(options, heap) ==
  IF Truthy(RemoveContentType(options, heap))
    THEN SpreadHeaders(options, heap)
    ELSE Merge(ContentType :> Str(DefaultContentType), SpreadHeaders(options, heap))

\* HeapAfterStrip testing the presence of the key instead of its value
HeapAfterStrip_KeyPresent(options, heap) ==
  IF Truthy(Get(options, "headers"))
       /\ Sentinel \in DOMAIN heap[Get(options, "headers").id]
    THEN [heap EXCEPT ![Get(options, "headers").id] = Delete(@, Sentinel)]
    ELSE heap

\* the caller's headers heap after delete options.headers["Remove-Content-Type"]
HeapAfterStrip(options, heap) ==
  IF Truthy(RemoveContentType(options, heap))
    THEN [heap EXCEPT ![Get(options, "headers").id] = Delete(@, Sentinel)]
    ELSE heap

\* the second argument of fetch
FetchInit(options, headers) ==
  Merge(Merge(("method" :> Str("POST")) @@ ("credentials" :> Str("include")), options),
        "headers" :> Obj(headers))

\* `${ROOT_URL}${path}`
FetchUrl(root, path) == ToStr(root) \o path

\* ------------------------------------------------------ responses, bodies
Statuses == { 200, 401 }
Ok(response) == response.status \in 200..299

BodyTexts ==
  { "",
    "null",
    "{\"detail\":\"bad credentials\"}",
    "{\"token\":\"abc\"}" }

IsJSON(text) == text # ""

\* JSON.parse on the bodies above
ParseJSON(text) ==
  CASE text = "null" -> Null
    [] text = "{\"detail\":\"bad credentials\"}" -> Obj("detail" :> Str("bad credentials"))
    [] text = "{\"token\":\"abc\"}" -> Obj("token" :> Str("abc"))

\* errors raised by the platform
FetchErrors == { [name |-> "TypeError", message |-> "Failed to fetch"] }
JsonSyntaxError == [name |-> "SyntaxError", message |-> "Unexpected end of JSON input"]
NullDetailError == [name |-> "TypeError", message |-> "Cannot read properties of null"]

NoResponse == [status |-> 0, body |-> "(none)"]
\* a response whose body has not been read yet
Unread == "(unread)"
NoError == [name |-> "(none)", message |-> ""]
Pending == [kind |-> "pending"]
Resolved(v) == [kind |-> "resolved", value |-> v]
Rejected(e) == [kind |-> "rejected", error |-> e]

\* Rethrow wrapping the error in a new Error, as a try/catch would
Rethrow_Wrapped(e) == [kind |-> "rejected", error |-> NewError(Str(e.message))]

\* an await whose promise rejected with e: the async function rejects with e
Rethrow(e) == Rejected(e)

\* notify({ notificationMessage }): records the dispatch
Notify(log, message) == Append(log, [notificationMessage |-> message])

VARIABLES
  processEnv,   \* process.env
  PORT,         \* the global PORT
  ROOT_URL,     \* the global ROOT_URL
  BACKEND_URL,  \* the module variable BACKEND_URL
  modState,     \* "unloaded", "loaded" or "threw"
  hdrHeap,      \* the callers' headers objects
  optHeap,      \* the callers' options objects
  calls         \* the sendRequest invocations, in order of invocation

vars == <<processEnv, PORT, ROOT_URL, BACKEND_URL, modState, hdrHeap, optHeap, calls>>

Init ==
  /\ processEnv \in ProcessEnvs
  /\ \E g \in HostGlobals : PORT = g.PORT /\ ROOT_URL = g.ROOT_URL
  /\ BACKEND_URL = Undefined
  /\ modState = "unloaded"
  /\ hdrHeap = << >>
  /\ optHeap = << >>
  /\ calls = << >>

\* lines 4-6, evaluated when the module is first imported
LoadModule ==
  /\ modState = "unloaded"
  /\ BACKEND_URL' = Get(processEnv, "BACKEND_URL")
  /\ IF PORT = Undeclared
       THEN /\ modState' = "threw"
            /\ UNCHANGED <<PORT, ROOT_URL>>
       ELSE /\ PORT' = Or(PORT, Num(DefaultPort))
            /\ IF ROOT_URL = Undeclared
                 THEN /\ modState' = "threw"
                      /\ UNCHANGED ROOT_URL
                 ELSE /\ ROOT_URL' = Or(BACKEND_URL', Str(FallbackHost \o ToStr(PORT')))
                      /\ modState' = "loaded"
  /\ UNCHANGED <<processEnv, hdrHeap, optHeap, calls>>

\* lines 8-27: the call up to its first await. opt is the index of the options
\* object in oh, or 0 when the argument is omitted (options = {}).
Invoke(path, opt, oh, hh) ==
  LET options == IF opt = 0 THEN EmptyObj ELSE oh[opt]
      headers == BuildHeaders(options, hh)
  IN /\ hdrHeap' = HeapAfterStrip(options, hh)
     /\ optHeap' = oh
     /\ calls' = Append(calls,
          [ path |-> path,
            opt |-> opt,
            optBefore |-> options,
            hdrBefore |-> IF Truthy(Get(options, "headers"))
                            THEN Obj(hh[Get(options, "headers").id]) ELSE Undefined,
            url |-> FetchUrl(ROOT_URL, path),
            init |-> FetchInit(options, headers),
            pc |-> "awaitFetch",
            response |-> NoResponse,
            raised |-> NoError,
            events |-> << "fetch" >>,
            notified |-> << >>,
            result |-> Pending ])
     /\ UNCHANGED <<processEnv, PORT, ROOT_URL, BACKEND_URL, modState>>

CanCall == modState = "loaded" /\ Len(calls) < MaxCalls

\* sendRequest(path)
SendRequestNoOptions ==
  /\ CanCall
  /\ \E path \in Paths : Invoke(path, 0, optHeap, hdrHeap)

\* sendRequest(path, { credentials, method })
SendRequestNoHeaders ==
  /\ CanCall
  /\ \E path \in Paths, ol \in OptionLiterals :
       Invoke(path, Len(optHeap) + 1, Append(optHeap, ol), hdrHeap)

\* sendRequest(path, { headers: { ... } })
SendRequestLiteral ==
  /\ CanCall
  /\ \E path \in Paths, hl \in HeaderLiterals :
       Invoke(path, Len(optHeap) + 1,
              Append(optHeap, "headers" :> Ref(Len(hdrHeap) + 1)),
              Append(hdrHeap, hl))

\* sendRequest(path, options) with an options object passed before
SendRequestSameOptions ==
  /\ CanCall
  /\ \E path \in Paths, o \in 1..Len(optHeap) : Invoke(path, o, optHeap, hdrHeap)

\* sendRequest(path, { headers }) with a headers object passed before
SendRequestSameHeaders ==
  /\ CanCall
  /\ \E path \in Paths, h \in 1..Len(hdrHeap) :
       Invoke(path, Len(optHeap) + 1, Append(optHeap, "headers" :> Ref(h)), hdrHeap)

\* the fetch promise rejects: the await at line 22 rethrows
FetchReject(c) ==
  /\ calls[c].pc = "awaitFetch"
  /\ \E e \in FetchErrors :
       calls' = [calls EXCEPT ![c].pc = "rejected",
                              ![c].raised = e,
                              ![c].events = Append(@, "throw"),
                              ![c].result = Rethrow(e)]
  /\ UNCHANGED <<processEnv, PORT, ROOT_URL, BACKEND_URL, modState, hdrHeap, optHeap>>

\* lines 29-31 and 36: the continuation after the fetch promise resolves
AfterFetch(call, response) ==
  [call EXCEPT !.response = response,
               !.events = @ \o << "log", "json" >>,
               !.pc = IF ~Ok(response) THEN "awaitFailedJson" ELSE "awaitJson"]

FetchResolve(c) ==
  /\ calls[c].pc = "awaitFetch"
  /\ \E st \in Statuses :
       calls' = [calls EXCEPT ![c] = AfterFetch(@, [status |-> st, body |-> Unread])]
  /\ UNCHANGED <<processEnv, PORT, ROOT_URL, BACKEND_URL, modState, hdrHeap, optHeap>>

\* FailureBranch throwing without the notify call
FailureBranch_NoNotify(call, failedInformation) ==
  IF failedInformation.t \in {"null", "undefined"}
    THEN [call EXCEPT !.events = @ \o << "log", "throw" >>,
                      !.pc = "rejected",
                      !.result = Rejected(NullDetailError)]
    ELSE LET detail == IF failedInformation.t = "object"
                         THEN Get(failedInformation.f, "detail") ELSE Undefined
         IN [call EXCEPT !.events = @ \o << "log", "throw" >>,
                         !.pc = "rejected",
                         !.result = Rejected(NewError(detail))]

\* FailureBranch without the throw: control falls through to the parse at line 36
FailureBranch_FallThrough(call, failedInformation) ==
  IF failedInformation.t \in {"null", "undefined"}
    THEN [call EXCEPT !.events = @ \o << "log", "throw" >>,
                      !.pc = "rejected",
                      !.result = Rejected(NullDetailError)]
    ELSE LET detail == IF failedInformation.t = "object"
                         THEN Get(failedInformation.f, "detail") ELSE Undefined
         IN [call EXCEPT !.events = @ \o << "log", "notify", "json" >>,
                         !.notified = Notify(@, detail),
                         !.pc = "awaitJson"]

\* lines 32-34: the failure branch after its parse resolves
FailureBranch(call, failedInformation) ==
  IF failedInformation.t \in {"null", "undefined"}
    THEN [call EXCEPT !.events = @ \o << "log", "throw" >>,
                      !.pc = "rejected",
                      !.result = Rejected(NullDetailError)]
    ELSE LET detail == IF failedInformation.t = "object"
                         THEN Get(failedInformation.f, "detail") ELSE Undefined
         IN [call EXCEPT !.events = @ \o << "log", "notify", "throw" >>,
                         !.notified = Notify(@, detail),
                         !.pc = "rejected",
                         !.result = Rejected(NewError(detail))]

\* SuccessBranch without the return statement: resolves with undefined
SuccessBranch_NoReturn(call, jsonData) ==
  [call EXCEPT !.events = Append(@, "return"),
               !.pc = "resolved",
               !.result = Resolved(Undefined)]

\* lines 36-38: the success path after its parse resolves
SuccessBranch(call, jsonData) ==
  [call EXCEPT !.events = Append(@, "return"),
               !.pc = "resolved",
               !.result = Resolved(jsonData)]

\* the body arrives and parses: the response.json() promise resolves
JsonResolve(c) ==
  /\ calls[c].pc \in {"awaitFailedJson", "awaitJson"}
  /\ \E b \in BodyTexts :
       /\ IsJSON(b)
       /\ calls' = [calls EXCEPT ![c] =
            IF @.pc = "awaitFailedJson"
              THEN FailureBranch([@ EXCEPT !.response.body = b], ParseJSON(b))
              ELSE SuccessBranch([@ EXCEPT !.response.body = b], ParseJSON(b))]
  /\ UNCHANGED <<processEnv, PORT, ROOT_URL, BACKEND_URL, modState, hdrHeap, optHeap>>

\* the body arrives and is no JSON: the response.json() promise rejects and
\* the await rethrows
JsonReject(c) ==
  /\ calls[c].pc \in {"awaitFailedJson", "awaitJson"}
  /\ \E b \in BodyTexts :
       /\ ~IsJSON(b)
       /\ calls' = [calls EXCEPT ![c].pc = "rejected",
                                 ![c].response.body = b,
                                 ![c].raised = JsonSyntaxError,
                                 ![c].events = Append(@, "throw"),
                                 ![c].result = Rethrow(JsonSyntaxError)]
  /\ UNCHANGED <<processEnv, PORT, ROOT_URL, BACKEND_URL, modState, hdrHeap, optHeap>>

Next ==
  \/ LoadModule
  \/ SendRequestNoOptions
  \/ SendRequestNoHeaders
  \/ SendRequestLiteral
  \/ SendRequestSameOptions
  \/ SendRequestSameHeaders
  \/ \E c \in 1..Len(calls) : FetchReject(c)
  \/ \E c \in 1..Len(calls) : FetchResolve(c)
  \/ \E c \in 1..Len(calls) : JsonResolve(c)
  \/ \E c \in 1..Len(calls) : JsonReject(c)

Spec == Init /\ [][Next]_vars

\* ------------------------------------------------------------ properties
Calls == 1..Len(calls)
Settled(c) == calls[c].pc \in {"resolved", "rejected"}
Count(seq, e) == Cardinality({ i \in DOMAIN seq : seq[i] = e })
Before(seq, a, b) ==
  \E i, j \in DOMAIN seq : i < j /\ seq[i] = a /\ seq[j] = b
\* the response of call c arrived with its body read
BodyRead(c) == calls[c].response # NoResponse /\ calls[c].response.body # Unread
\* the detail field of a parsed failure body
DetailOf(v) == IF v.t = "object" THEN Get(v.f, "detail") ELSE Undefined
\* the headers object call c received, as a property map (no headers: empty)
CallerHeaders(c) == IF calls[c].hdrBefore = Undefined THEN EmptyObj ELSE calls[c].hdrBefore.f
SentHeaders(c) == calls[c].init["headers"].f
\* the headers object of call c as its caller first wrote it
HeadersAsWritten(c) ==
  LET r == Get(calls[c].optBefore, "headers")
      first == CHOOSE d \in Calls :
                 /\ Get(calls[d].optBefore, "headers") = r
                 /\ \A e \in Calls : Get(calls[e].optBefore, "headers") = r => d <= e
  IN IF Truthy(r) THEN calls[first].hdrBefore.f ELSE EmptyObj
\* the request call c would hand to fetch had it run alone on its arguments
AloneHeaders(c) ==
  IF Truthy(Get(HeadersAsWritten(c), Sentinel))
    THEN HeadersAsWritten(c)
    ELSE Merge(ContentType :> Str(DefaultContentType), HeadersAsWritten(c))

\* C1 (as stated): every settled call with a non-success status and a JSON body
\* rejected with an error whose message is the body's detail, after exactly one
\* notify carrying that detail.
C1_AnyJsonBody ==
  \A c \in Calls :
    (Settled(c) /\ BodyRead(c) /\ ~Ok(calls[c].response) /\ IsJSON(calls[c].response.body)) =>
      LET detail == DetailOf(ParseJSON(calls[c].response.body))
      IN /\ calls[c].result.kind = "rejected"
         /\ Str(calls[c].result.error.message) = detail
         /\ calls[c].notified = << [notificationMessage |-> detail] >>
         /\ Before(calls[c].events, "notify", "throw")

\* C1 (amended): every settled call with a non-success status and a JSON body
\* that is an object with a string detail rejected with an Error whose message is
\* that detail, after exactly one notify carrying that detail; until the call
\* settles nothing is notified.
C1_FailureNotifiesThenRejects ==
  \A c \in Calls :
    /\ ~Settled(c) => calls[c].notified = << >>
    /\ (/\ Settled(c) /\ BodyRead(c) /\ ~Ok(calls[c].response)
        /\ IsJSON(calls[c].response.body)
        /\ DetailOf(ParseJSON(calls[c].response.body)).t = "string") =>
         LET detail == DetailOf(ParseJSON(calls[c].response.body))
         IN /\ calls[c].result = Rejected([name |-> "Error", message |-> detail.s])
            /\ calls[c].notified = << [notificationMessage |-> detail] >>
            /\ Count(calls[c].events, "notify") = 1
            /\ Count(calls[c].events, "throw") = 1
            /\ Before(calls[c].events, "notify", "throw")

C1_Witness ==
  \E c \in Calls :
    /\ calls[c].pc = "rejected"
    /\ calls[c].response = [status |-> 401, body |-> "{\"detail\":\"bad credentials\"}"]
    /\ calls[c].notified # << >>

\* C2 (as stated): every settled call with a success status resolved with the
\* parsed JSON body of its response, and notified nothing.
C2_EverySuccessResolves ==
  \A c \in Calls :
    (Settled(c) /\ BodyRead(c) /\ Ok(calls[c].response)) =>
      /\ IsJSON(calls[c].response.body)
      /\ calls[c].result = Resolved(ParseJSON(calls[c].response.body))
      /\ calls[c].notified = << >>

\* C2 (amended): a call with a success status never notifies, and when its body
\* parses as JSON it resolves with exactly the parsed body.
C2_SuccessResolvesWithBody ==
  \A c \in Calls :
    (calls[c].response # NoResponse /\ Ok(calls[c].response)) =>
      /\ calls[c].notified = << >>
      /\ Count(calls[c].events, "notify") = 0
      /\ (Settled(c) /\ IsJSON(calls[c].response.body)) =>
           calls[c].result = Resolved(ParseJSON(calls[c].response.body))

C2_Witness ==
  \E c \in Calls :
    /\ calls[c].pc = "resolved"
    /\ calls[c].response = [status |-> 200, body |-> "{\"token\":\"abc\"}"]

\* C3 (as stated): every request handed to fetch has credentials "include".
C3_CredentialsAlwaysInclude ==
  \A c \in Calls : calls[c].init["credentials"] = Str("include")

\* C4 (as stated): when the caller's headers carry the sentinel key, the headers
\* handed to fetch are the caller's headers without the sentinel key: no sentinel,
\* no injected Content-Type, every other header unchanged.
C4_SentinelStripped ==
  \A c \in Calls :
    Sentinel \in DOMAIN CallerHeaders(c) =>
      /\ Sentinel \notin DOMAIN SentHeaders(c)
      /\ (ContentType \in DOMAIN SentHeaders(c)) <=> (ContentType \in DOMAIN CallerHeaders(c))
      /\ \A k \in DOMAIN CallerHeaders(c) \ {Sentinel} :
           k \in DOMAIN SentHeaders(c) /\ SentHeaders(c)[k] = CallerHeaders(c)[k]

\* C5 (as stated): the request every call hands to fetch is the one it would hand
\* over had it run alone on its arguments as the caller wrote them, whatever other
\* calls ran before it on the same objects.
C5_CallsIndependent ==
  \A c \in Calls :
    /\ calls[c].url = ToStr(ROOT_URL) \o calls[c].path
    /\ SentHeaders(c) = AloneHeaders(c)
    /\ \A k \in {"method", "credentials"} :
         calls[c].init[k] =
           IF k \in DOMAIN calls[c].optBefore THEN calls[c].optBefore[k]
           ELSE IF k = "method" THEN Str("POST") ELSE Str("include")

\* C6: when the caller's headers do not carry the sentinel key, the headers handed
\* to fetch are the caller's headers, plus the default Content-Type exactly when
\* the caller gave none.
C6_DefaultContentType ==
  \A c \in Calls :
    Sentinel \notin DOMAIN CallerHeaders(c) =>
      /\ DOMAIN SentHeaders(c) = DOMAIN CallerHeaders(c) \cup {ContentType}
      /\ \A k \in DOMAIN CallerHeaders(c) : SentHeaders(c)[k] = CallerHeaders(c)[k]
      /\ ContentType \notin DOMAIN CallerHeaders(c) =>
           SentHeaders(c)[ContentType] = Str("application/json; charset=UTF-8")

C6_Witness ==
  /\ \E c \in Calls : CallerHeaders(c) = ("X-Token" :> Str("t"))
  /\ \E c \in Calls : CallerHeaders(c) = (ContentType :> Str("text/plain"))

\* C7 (as stated): once the module has been imported the base URL is BACKEND_URL
\* when the environment sets it and http://0.0.0.0:9001 when neither BACKEND_URL
\* nor PORT is set, and every call targets the base URL followed by its path.
C7_BaseUrlResolved ==
  modState # "unloaded" =>
    /\ modState = "loaded"
    /\ ROOT_URL = IF "BACKEND_URL" \in DOMAIN processEnv
                    THEN processEnv["BACKEND_URL"]
                    ELSE Str("http://0.0.0.0:9001")
    /\ \A c \in Calls : calls[c].url = ToStr(ROOT_URL) \o calls[c].path

\* C8: a call whose fetch promise rejected, or whose non-success body failed to
\* parse, rejected with that very error and notified nothing.
C8_ErrorsPropagateUnwrapped ==
  \A c \in Calls :
    LET fetchFailed == calls[c].pc = "rejected" /\ calls[c].response = NoResponse
        parseFailed == /\ Settled(c) /\ BodyRead(c) /\ ~Ok(calls[c].response)
                       /\ ~IsJSON(calls[c].response.body)
    IN (fetchFailed \/ parseFailed) =>
         /\ calls[c].raised # NoError
         /\ calls[c].result = [kind |-> "rejected", error |-> calls[c].raised]
         /\ calls[c].notified = << >>
         /\ Count(calls[c].events, "notify") = 0
         /\ Count(calls[c].events, "return") = 0

C8_Witness ==
  /\ \E c \in Calls : calls[c].pc = "rejected" /\ calls[c].response = NoResponse
  /\ \E c \in Calls : calls[c].pc = "rejected" /\ calls[c].response = [status |-> 401, body |-> ""]

\* C9: every call invokes fetch exactly once and response.json() at most once, and
\* a settled call ended in exactly one of resolved and rejected.
C9_SingleFetchSingleParse ==
  \A c \in Calls :
    /\ Count(calls[c].events, "fetch") = 1
    /\ Count(calls[c].events, "json") <= 1
    /\ Count(calls[c].events, "return") + Count(calls[c].events, "throw") =
         IF Settled(c) THEN 1 ELSE 0
    /\ calls[c].pc = "resolved" <=> Count(calls[c].events, "return") = 1
    /\ calls[c].pc = "rejected" <=> Count(calls[c].events, "throw") = 1
    /\ calls[c].result.kind = IF Settled(c) THEN calls[c].pc ELSE "pending"

C9_Witness ==
  \E c \in Calls :
    /\ calls[c].pc = "rejected"
    /\ BodyRead(c) /\ ~Ok(calls[c].response) /\ IsJSON(calls[c].response.body)
    /\ calls[c].events = << "fetch", "log", "json", "log", "notify", "throw" >>

\* C10: a step that invokes sendRequest leaves every options object as it was and
\* changes at most the headers object it received, by deleting the sentinel key
\* when that key held a truthy value; no other step changes the callers' objects.
C10_Step ==
  IF Len(calls') = Len(calls) + 1
    THEN LET c == calls'[Len(calls')]
             r == Get(c.optBefore, "headers")
         IN /\ \A o \in 1..Len(optHeap) : optHeap'[o] = optHeap[o]
            /\ c.opt # 0 => optHeap'[c.opt] = c.optBefore
            /\ \A h \in 1..Len(hdrHeap) : (~Truthy(r) \/ h # r.id) => hdrHeap'[h] = hdrHeap[h]
            /\ Truthy(r) =>
                 /\ r.id <= Len(hdrHeap) => c.hdrBefore.f = hdrHeap[r.id]
                 /\ hdrHeap'[r.id] =
                      IF Truthy(Get(c.hdrBefore.f, Sentinel))
                        THEN [k \in DOMAIN c.hdrBefore.f \ {Sentinel} |-> c.hdrBefore.f[k]]
                        ELSE c.hdrBefore.f
    ELSE hdrHeap' = hdrHeap /\ optHeap' = optHeap

C10_CallerArgumentsFrame == [][C10_Step]_vars

C10_Witness ==
  /\ \E c \in Calls :
       /\ Get(CallerHeaders(c), Sentinel) = Bool(TRUE)
       /\ Sentinel \notin DOMAIN hdrHeap[Get(calls[c].optBefore, "headers").id]
  /\ \E c \in Calls :
       /\ Get(CallerHeaders(c), Sentinel) = Bool(FALSE)
       /\ Sentinel \in DOMAIN hdrHeap[Get(calls[c].optBefore, "headers").id]

====
